---- MODULE Spec2Model ----
(***************************************************************************)
(* Model of aiohttp/multidict.py: the mutable multi-maps                   *)
(* (_MutableMultiDict and _CaseInsensitiveMutableMultiDict), the           *)
(* operations of MutableMultiDictMixin, the read side of _MultiDict that   *)
(* the mutations are observed through, and the views of _ViewBase.         *)
(*                                                                         *)
(* A map is its list self._items, a sequence of <<key, value>> tuples.     *)
(* A view holds two references: _keys (always a fresh list) and _items,    *)
(* which is either a fresh list or the very list object of the map.        *)
(***************************************************************************)
EXTENDS Integers, Sequences, FiniteSets, TLC

VARIABLES
    ci,      \* TRUE: _CaseInsensitiveMutableMultiDict, FALSE: _MutableMultiDict
    items,   \* the map's self._items
    view,    \* the view object most recently returned by keys()/items()/values()
    last,    \* the most recent call: its name, its outcome and len(m) before it
    other,   \* the map returned by m.copy(), once there is one
    run      \* the m.extend(m) call in progress: where its loop stands

vars == <<ci, items, view, last, other, run>>

----------------------------------------------------------------------------
(* Bounds of the model *)

MaxLen == 3        \* longest entry list explored
MaxCtorLen == 1    \* longest pair list handed to the constructor
MaxExtLen == 2     \* longest positional item list handed to extend
MaxViewLen == 2    \* longest entry list explored while a view is held

(* Inputs *)

None == 0
Marker == -1
Keys == {"a", "A", "b"}
Values == {None, 1}
Pairs == {<<k, v>> : k \in Keys, v \in Values}
\* an item of an input sequence that is not a length-2 pair
BadItem == <<"a">>

SeqsUpTo(S, n) == UNION {[1..m -> S] : m \in 0..n}

\* str.upper() on the keys of the model
Upper(k) == CASE k = "a" -> "A"
              [] k = "b" -> "B"
              [] OTHER   -> k

\* str.lower() on the keys of the model
Lower(k) == CASE k = "A" -> "a"
              [] k = "B" -> "b"
              [] OTHER   -> k

\* a default no call can otherwise return: a list holding the marker
Sentinel == <<Marker>>

----------------------------------------------------------------------------
(* _MultiDict and _CaseInsensitiveMultiDict: construction and reads *)

\* [f(e) for e in s]
MapSeq(s, f(_)) == [i \in 1..Len(s) |-> f(s[i])]

KeyOf(e) == e[1]
ValueOf(e) == e[2]

\* _fill: the base class extends the list, the case-insensitive class
\* appends (key.upper(), value) for every pair
FoldPair(e) == <<Upper(e[1]), e[2]>>
Fill(c, its, ipairs) ==
    IF c THEN its \o MapSeq(ipairs, FoldPair) ELSE its \o ipairs

\* res = [v for k, v in self._items if k == key]
BaseGetAllRes(its, key) ==
    MapSeq(SelectSeq(its, LAMBDA e : e[1] = key), ValueOf)

\* getall without a default: the list, or KeyError when it is empty
BaseGetAll(its, key) ==
    LET res == BaseGetAllRes(its, key)
    IN  IF res # <<>> THEN [err |-> "none", ret |-> res]
                      ELSE [err |-> "KeyError", ret |-> <<>>]

\* mutant of GetAll: the case-insensitive class looks the raw key up
GetAllUnfolded(c, its, key) == BaseGetAll(its, key)

GetAll(c, its, key) == BaseGetAll(its, IF c THEN Upper(key) ELSE key)

\* getall with a default: the list, or the default when it is empty
BaseGetAllOr(its, key, default) ==
    LET res == BaseGetAllRes(its, key)
    IN  IF res # <<>> THEN [err |-> "none", ret |-> res]
                      ELSE [err |-> "none", ret |-> default]

GetAllOr(c, its, key, default) ==
    BaseGetAllOr(its, IF c THEN Upper(key) ELSE key, default)

\* index of the first entry whose key is key, 0 when there is none
FirstIndex(its, key) ==
    IF \E i \in 1..Len(its) : its[i][1] = key
    THEN CHOOSE i \in 1..Len(its) :
            /\ its[i][1] = key
            /\ \A j \in 1..(i - 1) : its[j][1] # key
    ELSE 0

\* getone without a default
BaseGetOne(its, key) ==
    LET i == FirstIndex(its, key)
    IN  IF i > 0 THEN [err |-> "none", ret |-> its[i][2]]
                 ELSE [err |-> "KeyError", ret |-> None]

GetOne(c, its, key) == BaseGetOne(its, IF c THEN Upper(key) ELSE key)

\* getone with a default
BaseGetOneOr(its, key, default) ==
    LET i == FirstIndex(its, key)
    IN  IF i > 0 THEN [err |-> "none", ret |-> its[i][2]]
                 ELSE [err |-> "none", ret |-> default]

GetOneOr(c, its, key, default) ==
    BaseGetOneOr(its, IF c THEN Upper(key) ELSE key, default)

\* __getitem__
BaseGetItem(its, key) ==
    LET i == FirstIndex(its, key)
    IN  IF i > 0 THEN [err |-> "none", ret |-> its[i][2]]
                 ELSE [err |-> "KeyError", ret |-> None]

GetItem(c, its, key) == BaseGetItem(its, IF c THEN Upper(key) ELSE key)

\* mutant of BaseGet: the last value of the key is returned
BaseGetLast(its, key, default) ==
    LET res == BaseGetAllRes(its, key)
    IN  IF res # <<>> THEN [err |-> "none", ret |-> res[Len(res)]]
                      ELSE [err |-> "none", ret |-> default]

\* get(key, default)
BaseGet(its, key, default) ==
    LET i == FirstIndex(its, key)
    IN  IF i > 0 THEN [err |-> "none", ret |-> its[i][2]]
                 ELSE [err |-> "none", ret |-> default]

Get(c, its, key, default) ==
    BaseGet(its, IF c THEN Upper(key) ELSE key, default)

BaseContains(its, key) == \E i \in 1..Len(its) : its[i][1] = key

\* mutant of Contains: the case-insensitive class looks the raw key up
ContainsUnfolded(c, its, key) == BaseContains(its, key)

Contains(c, its, key) == BaseContains(its, IF c THEN Upper(key) ELSE key)

----------------------------------------------------------------------------
(* _ViewBase and its three subclasses *)

\* the getall=False loop of _ViewBase.__init__: i is the next entry, seen the
\* set of keys met so far, ks and use the lists being built
RECURSIVE FirstPerKey(_, _, _, _, _)
FirstPerKey(its, i, seen, ks, use) ==
    IF i > Len(its) THEN [keys |-> ks, use |-> use]
    ELSE IF its[i][1] \in seen
         THEN FirstPerKey(its, i + 1, seen, ks, use)
         ELSE FirstPerKey(its, i + 1, seen \cup {its[i][1]},
                          Append(ks, its[i][1]), Append(use, its[i]))

\* mutant of ViewInit: the getall flag is ignored
ViewInitUnfiltered(its, getall) ==
    [made |-> TRUE, getall |-> getall,
     keys |-> MapSeq(its, KeyOf), shared |-> TRUE, own |-> <<>>]

\* _ViewBase.__init__(items, getall). With getall the view keeps the list it
\* was given (shared: self._items is the caller's list object) and a fresh
\* list of its keys; without it both lists are fresh. The three view classes
\* inherit this constructor and add no field, so the views m.keys(getall=g),
\* m.items(getall=g) and m.values(getall=g) taken in the same state hold
\* equal fields: one record stands for the three.
ViewInit(its, getall) ==
    IF getall
    THEN [made |-> TRUE, getall |-> TRUE,
          keys |-> MapSeq(its, KeyOf), shared |-> TRUE, own |-> <<>>]
    ELSE LET r == FirstPerKey(its, 1, {}, <<>>, <<>>)
         IN  [made |-> TRUE, getall |-> FALSE,
              keys |-> r.keys, shared |-> FALSE, own |-> r.use]

\* the list a view's self._items refers to, mapItems being the map's list now
ViewItems(vw, mapItems) == IF vw.shared THEN mapItems ELSE vw.own

\* _ViewBase.__len__
ViewLen(vw, mapItems) == Len(ViewItems(vw, mapItems))

\* __iter__ of _KeysView, _ItemsView, _ValuesView
KeysViewIter(vw) == vw.keys
ItemsViewIter(vw, mapItems) == ViewItems(vw, mapItems)
ValuesViewIter(vw, mapItems) == MapSeq(ViewItems(vw, mapItems), ValueOf)

\* __contains__ of _KeysView (a key), _ItemsView (a pair), _ValuesView (a value)
KeysViewContains(vw, key) == \E i \in 1..Len(vw.keys) : vw.keys[i] = key
ItemsViewContains(vw, mapItems, item) ==
    \E i \in 1..Len(ViewItems(vw, mapItems)) : ViewItems(vw, mapItems)[i] = item
ValuesViewContains(vw, mapItems, value) ==
    \E i \in 1..Len(ViewItems(vw, mapItems)) : ViewItems(vw, mapItems)[i][2] = value

\* mutant of MapIter: iterates keys(getall=False)
MapIterFirstOnly(its) == KeysViewIter(ViewInit(its, FALSE))

\* _MultiDict.__iter__: iter(self.keys())
MapIter(its) == KeysViewIter(ViewInit(its, TRUE))

\* a mapping outside the multi-map family: a function from some keys to values
Mappings == UNION {[D -> Values] : D \in SUBSET Keys}
\* other.get(k, default)
OtherGet(o, k, default) == IF k \in DOMAIN o THEN o[k] ELSE default

\* mutant of EqMapping: compares the first pair of each key only
EqMappingFirstValues(its, o) ==
    LET pairs == ItemsViewIter(ViewInit(its, FALSE), its)
    IN  \A i \in 1..Len(pairs) : pairs[i][2] = OtherGet(o, pairs[i][1], Marker)

\* _MultiDict.__eq__ against a mapping that is no _MultiDict: every pair of
\* self.items() must be matched by other.get(k, _marker)
EqMapping(its, o) ==
    LET pairs == ItemsViewIter(ViewInit(its, TRUE), its)
    IN  \A i \in 1..Len(pairs) : pairs[i][2] = OtherGet(o, pairs[i][1], Marker)

----------------------------------------------------------------------------
(* MutableMultiDictMixin and _CaseInsensitiveMutableMultiDict *)

\* add: the case-insensitive class folds the key, the mixin appends
MixinAdd(its, key, value) == Append(its, <<key, value>>)
\* mutant of MapAdd: the case-insensitive class forgets to fold the key
MapAddUnfolded(c, its, key, value) == MixinAdd(its, key, value)
MapAdd(c, its, key, value) == MixinAdd(its, IF c THEN Upper(key) ELSE key, value)

RemoveAt(its, i) == SubSeq(its, 1, i - 1) \o SubSeq(its, i + 1, Len(its))

\* the loop of __delitem__: for i in range(len(items) - 1, -1, -1)
RECURSIVE DelLoop(_, _, _, _)
DelLoop(its, key, i, found) ==
    IF i < 1 THEN [items |-> its, found |-> found]
    ELSE IF its[i][1] = key
         THEN DelLoop(RemoveAt(its, i), key, i - 1, TRUE)
         ELSE DelLoop(its, key, i - 1, found)

\* mutant of MixinDelItem: a key that was not found is not reported
MixinDelItemSilent(its, key) ==
    [items |-> DelLoop(its, key, Len(its), FALSE).items, err |-> "none"]

MixinDelItem(its, key) ==
    LET r == DelLoop(its, key, Len(its), FALSE)
    IN  [items |-> r.items, err |-> IF r.found THEN "none" ELSE "KeyError"]

MapDelItem(c, its, key) == MixinDelItem(its, IF c THEN Upper(key) ELSE key)

\* mutant of MixinSetItem: the old entries of the key are not deleted
MixinSetItemKeepOld(c, its, key, value) == Append(its, <<key, value>>)

\* the mixin's __setitem__: del self[key] goes through the class's own
\* __delitem__, a KeyError is swallowed, then the pair is appended
MixinSetItem(c, its, key, value) ==
    Append(MapDelItem(c, its, key).items, <<key, value>>)

MapSetItem(c, its, key, value) ==
    MixinSetItem(c, its, IF c THEN Upper(key) ELSE key, value)

\* setdefault is the mixin's for both classes: the key is compared and
\* stored as given
MapSetDefault(its, key, default) ==
    LET i == FirstIndex(its, key)
    IN  IF i > 0 THEN [items |-> its, ret |-> its[i][2]]
                 ELSE [items |-> Append(its, <<key, default>>), ret |-> default]

\* the loop of extend over chain(items, kwargs.items()): unpacking an item
\* that is no pair raises, after the pairs before it were added
RECURSIVE ExtendLoop(_, _, _, _)
ExtendLoop(c, its, src, i) ==
    IF i > Len(src) THEN [items |-> its, err |-> "none"]
    ELSE IF Len(src[i]) # 2 THEN [items |-> its, err |-> "ValueError"]
         ELSE ExtendLoop(c, MapAdd(c, its, src[i][1], src[i][2]), src, i + 1)

\* mutant of MapExtend: the keyword pairs are added before the positional ones
MapExtendKwargsFirst(c, its, args, kwargs) ==
    IF Len(args) > 1 THEN [items |-> its, err |-> "TypeError"]
    ELSE ExtendLoop(c, its, kwargs \o (IF Len(args) = 1 THEN args[1] ELSE <<>>), 1)

\* extend(*args, **kwargs): args is the tuple of positional arguments, each
\* an iterable of items; kwargs the keyword pairs in call order
MapExtend(c, its, args, kwargs) ==
    IF Len(args) > 1 THEN [items |-> its, err |-> "TypeError"]
    ELSE ExtendLoop(c, its, (IF Len(args) = 1 THEN args[1] ELSE <<>>) \o kwargs, 1)

\* pop, popitem and update raise NotImplementedError
\* mutant of MapPop: the entries of the key are removed
MapPopRemoves(its, key, default) ==
    [items |-> SelectSeq(its, LAMBDA e : e[1] # key), err |-> "none"]

MapPop(its, key, default) == [items |-> its, err |-> "NotImplementedError"]
MapPopItem(its) == [items |-> its, err |-> "NotImplementedError"]
MapUpdate(its, args, kwargs) == [items |-> its, err |-> "NotImplementedError"]

----------------------------------------------------------------------------
(* Construction from an iterable, copy, equality within the family *)

\* mutant of MapInit: one pair per key is kept, as a dict would
MapInitOnePerKey(c, args, kwargs) ==
    [items |-> Fill(c, <<>>,
                    FirstPerKey((IF Len(args) = 1 THEN args[1] ELSE <<>>) \o kwargs,
                                1, {}, <<>>, <<>>).use),
     err |-> "none"]

\* __init__(*args, **kwargs) for a positional argument without an items
\* attribute (a list, a view): args = list(args[0]), every item of which
\* must have length 2; then _fill(chain(args, kwargs.items()))
MapInit(c, args, kwargs) ==
    IF Len(args) > 1 THEN [items |-> <<>>, err |-> "TypeError"]
    ELSE LET lst == IF Len(args) = 1 THEN args[1] ELSE <<>>
         IN  IF \E i \in 1..Len(lst) : Len(lst[i]) # 2
             THEN [items |-> <<>>, err |-> "TypeError"]
             ELSE [items |-> Fill(c, <<>>, lst \o kwargs), err |-> "none"]

\* __eq__ against another _MultiDict: self._items == other._items
MapEqFamily(its, otherIts) == its = otherIts

\* copy(): cls(self.items()); the items view has no items attribute, so the
\* constructor lists it
MapCopy(c, its) ==
    [made |-> TRUE, shared |-> FALSE,
     own |-> MapInit(c, <<ItemsViewIter(ViewInit(its, TRUE), its)>>, <<>>).items]

\* the entry list a copy reads and writes
CopyItems(cp, mapItems) == IF cp.shared THEN mapItems ELSE cp.own

----------------------------------------------------------------------------
(* State *)

NoView == [made |-> FALSE, getall |-> TRUE,
           keys |-> <<>>, shared |-> FALSE, own |-> <<>>]

Call(op, n) == [op |-> op, err |-> "none", ret |-> None, truth |-> FALSE,
                out |-> <<>>, n |-> n]

\* no copy yet; a copy holds a reference to its own list or (shared) to the
\* list of the map it was made from
NoMap == [made |-> FALSE, shared |-> FALSE, own |-> <<>>]

\* no m.extend(m) in progress
Idle == [active |-> FALSE, pos |-> 0, n0 |-> 0, added |-> 0]

Init ==
    /\ ci \in BOOLEAN
    /\ \E ipairs \in SeqsUpTo(Pairs, MaxCtorLen) : items = Fill(ci, <<>>, ipairs)
    /\ view = NoView
    /\ last = Call("init", 0)
    /\ other = NoMap
    /\ run = Idle

(* Actions: one per call on the map *)

Add(key, value) ==
    /\ Len(items) < MaxLen
    /\ items' = MapAdd(ci, items, key, value)
    /\ last' = Call("add", Len(items))
    /\ UNCHANGED <<ci, view, other, run>>

Extend(args, kwargs) ==
    LET r == MapExtend(ci, items, args, kwargs)
    IN  /\ Len(r.items) <= MaxLen
        /\ items' = r.items
        /\ last' = [Call("extend", Len(items)) EXCEPT !.err = r.err]
        /\ UNCHANGED <<ci, view, other, run>>

Clear ==
    /\ items' = <<>>
    /\ last' = Call("clear", Len(items))
    /\ UNCHANGED <<ci, view, other, run>>

SetItem(key, value) ==
    LET r == MapSetItem(ci, items, key, value)
    IN  /\ Len(r) <= MaxLen
        /\ items' = r
        /\ last' = Call("setitem", Len(items))
        /\ UNCHANGED <<ci, view, other, run>>

DelItem(key) ==
    LET r == MapDelItem(ci, items, key)
    IN  /\ items' = r.items
        /\ last' = [Call("delitem", Len(items)) EXCEPT !.err = r.err]
        /\ UNCHANGED <<ci, view, other, run>>

SetDefault(key, default) ==
    LET r == MapSetDefault(items, key, default)
    IN  /\ Len(r.items) <= MaxLen
        /\ items' = r.items
        /\ last' = [Call("setdefault", Len(items)) EXCEPT !.ret = r.ret]
        /\ UNCHANGED <<ci, view, other, run>>

\* for key in m
Iter ==
    /\ last' = [Call("iter", Len(items)) EXCEPT !.out = MapIter(items)]
    /\ UNCHANGED <<ci, items, view, other, run>>

\* m == o for a mapping o outside the family
Eq(o) ==
    /\ last' = [Call("eq", Len(items)) EXCEPT !.truth = EqMapping(items, o)]
    /\ UNCHANGED <<ci, items, view, other, run>>

\* k, i, v = m.keys(getall=g), m.items(getall=g), m.values(getall=g)
Views(g) ==
    /\ view' = ViewInit(items, g)
    /\ last' = Call("views", Len(items))
    /\ UNCHANGED <<ci, items, other, run>>

(* Lookups and the calls that are not supported *)

GetAllCall(key) ==
    LET r == GetAll(ci, items, key)
    IN  /\ last' = [Call("getall", Len(items)) EXCEPT !.err = r.err, !.out = r.ret]
        /\ UNCHANGED <<ci, items, view, other, run>>

\* getall(key, default) with a list as the default
GetAllDefault(key, default) ==
    LET r == GetAllOr(ci, items, key, default)
    IN  /\ last' = [Call("getall_default", Len(items)) EXCEPT !.out = r.ret]
        /\ UNCHANGED <<ci, items, view, other, run>>

GetOneCall(key) ==
    LET r == GetOne(ci, items, key)
    IN  /\ last' = [Call("getone", Len(items)) EXCEPT !.err = r.err, !.ret = r.ret]
        /\ UNCHANGED <<ci, items, view, other, run>>

GetOneDefault(key, default) ==
    LET r == GetOneOr(ci, items, key, default)
    IN  /\ last' = [Call("getone_default", Len(items)) EXCEPT !.ret = r.ret]
        /\ UNCHANGED <<ci, items, view, other, run>>

GetItemCall(key) ==
    LET r == GetItem(ci, items, key)
    IN  /\ last' = [Call("getitem", Len(items)) EXCEPT !.err = r.err, !.ret = r.ret]
        /\ UNCHANGED <<ci, items, view, other, run>>

GetCall(key, default) ==
    LET r == Get(ci, items, key, default)
    IN  /\ last' = [Call("get", Len(items)) EXCEPT !.ret = r.ret]
        /\ UNCHANGED <<ci, items, view, other, run>>

\* key in m
In(key) ==
    /\ last' = [Call("contains", Len(items)) EXCEPT
                    !.truth = Contains(ci, items, key)]
    /\ UNCHANGED <<ci, items, view, other, run>>

Pop(key, default) ==
    LET r == MapPop(items, key, default)
    IN  /\ items' = r.items
        /\ last' = [Call("pop", Len(items)) EXCEPT !.err = r.err]
        /\ UNCHANGED <<ci, view, other, run>>

PopItem ==
    LET r == MapPopItem(items)
    IN  /\ items' = r.items
        /\ last' = [Call("popitem", Len(items)) EXCEPT !.err = r.err]
        /\ UNCHANGED <<ci, view, other, run>>

Update(args, kwargs) ==
    LET r == MapUpdate(items, args, kwargs)
    IN  /\ items' = r.items
        /\ last' = [Call("update", Len(items)) EXCEPT !.err = r.err]
        /\ UNCHANGED <<ci, view, other, run>>

\* type(m)(m.items()) == m
RoundTrip ==
    LET r == MapInit(ci, <<ItemsViewIter(ViewInit(items, TRUE), items)>>, <<>>)
    IN  /\ last' = [Call("roundtrip", Len(items)) EXCEPT
                        !.err = r.err, !.truth = MapEqFamily(r.items, items)]
        /\ UNCHANGED <<ci, items, view, other, run>>

\* o = m.copy()
Copy ==
    /\ other' = MapCopy(ci, items)
    /\ last' = Call("copy", Len(items))
    /\ UNCHANGED <<ci, items, view, run>>

\* a mutating call on the copy o has written the list new
CopyStore(new) ==
    /\ other.made
    /\ Len(new) <= MaxLen
    /\ IF other.shared
       THEN items' = new /\ other' = other
       ELSE items' = items /\ other' = [other EXCEPT !.own = new]
    /\ UNCHANGED <<ci, view, run>>

\* o.add(key, value)
CopyAdd(key, value) ==
    /\ CopyStore(MapAdd(ci, CopyItems(other, items), key, value))
    /\ last' = Call("copy_add", Len(items))

\* o[key] = value
CopySetItem(key, value) ==
    /\ CopyStore(MapSetItem(ci, CopyItems(other, items), key, value))
    /\ last' = Call("copy_setitem", Len(items))

\* del o[key]
CopyDelItem(key) ==
    LET r == MapDelItem(ci, CopyItems(other, items), key)
    IN  /\ CopyStore(r.items)
        /\ last' = [Call("copy_delitem", Len(items)) EXCEPT !.err = r.err]

\* o.clear()
CopyClear ==
    /\ CopyStore(<<>>)
    /\ last' = Call("copy_clear", Len(items))

\* m.extend(m), one step of the loop at a time. The items handed to the loop
\* are the view m.items(): its iterator walks the list by position and stops
\* when the position reaches the length the list has at that moment.
ExtendSelfBegin ==
    /\ ~run.active
    /\ run' = [active |-> TRUE, pos |-> 0, n0 |-> Len(items), added |-> 0]
    /\ last' = Call("extend_self_begin", Len(items))
    /\ UNCHANGED <<ci, items, view, other>>

ExtendSelfStep ==
    LET src == ItemsViewIter(ViewInit(items, TRUE), items)
    IN  /\ run.active
        /\ IF run.pos < Len(src)
           THEN /\ Len(items) < MaxLen
                /\ items' = MapAdd(ci, items, src[run.pos + 1][1],
                                   src[run.pos + 1][2])
                /\ run' = [run EXCEPT !.pos = @ + 1, !.added = @ + 1]
                /\ last' = Call("extend_self_step", Len(items))
           ELSE /\ items' = items
                /\ run' = [run EXCEPT !.active = FALSE]
                /\ last' = Call("extend_self", run.n0)
        /\ UNCHANGED <<ci, view, other>>

----------------------------------------------------------------------------
(* Spec: the calls on a map *)

\* what extend is handed: lists of items, some of them no pairs; at most two
\* positional arguments; keyword pairs
ExtendItems == {<<"a", 1>>, <<"B", None>>, BadItem}
ItemLists == SeqsUpTo(ExtendItems, MaxExtLen)
ExtendArgs == {<<>>} \cup {<<l>> : l \in ItemLists} \cup {<<l, <<>>>> : l \in ItemLists}
ExtendKwargs == {<<>>, << <<"A", 1>> >>}

Next ==
    \/ \E k \in Keys, v \in Values : Add(k, v)
    \/ \E args \in ExtendArgs, kwargs \in ExtendKwargs : Extend(args, kwargs)
    \/ Clear
    \/ \E k \in Keys, v \in Values : SetItem(k, v)
    \/ \E k \in Keys : DelItem(k)
    \/ \E k \in Keys, d \in Values : SetDefault(k, d)
    \/ Iter
    \/ \E o \in Mappings : Eq(o)

Spec == Init /\ [][Next]_vars

----------------------------------------------------------------------------
(* SpecView: views are taken of a map that goes on being mutated *)

ViewExtendArgs == {<<l>> : l \in SeqsUpTo(Pairs, 1)}

\* the entry list stays within MaxViewLen
Small == Len(items) <= MaxViewLen

NextView ==
    \/ \E g \in BOOLEAN : Views(g) /\ Small'
    \/ \E k \in Keys, v \in Values : Add(k, v) /\ Small'
    \/ \E args \in ViewExtendArgs : Extend(args, <<>>) /\ Small'
    \/ Clear /\ Small'
    \/ \E k \in Keys, v \in Values : SetItem(k, v) /\ Small'
    \/ \E k \in Keys : DelItem(k) /\ Small'
    \/ \E k \in Keys, d \in Values : SetDefault(k, d) /\ Small'

SpecView == Init /\ [][NextView]_vars

----------------------------------------------------------------------------
(* SpecCopy: a map and a copy of it, each being mutated *)

NextCopy ==
    \/ Copy /\ Small'
    \/ \E k \in Keys, v \in Values : Add(k, v) /\ Small'
    \/ \E k \in Keys, v \in Values : SetItem(k, v) /\ Small'
    \/ \E k \in Keys : DelItem(k) /\ Small'
    \/ \E k \in Keys, d \in Values : SetDefault(k, d) /\ Small'
    \/ Clear /\ Small'
    \/ \E k \in Keys, v \in Values :
          CopyAdd(k, v) /\ Small' /\ Len(other'.own) <= MaxViewLen
    \/ \E k \in Keys, v \in Values :
          CopySetItem(k, v) /\ Small' /\ Len(other'.own) <= MaxViewLen
    \/ \E k \in Keys : CopyDelItem(k) /\ Small'
    \/ CopyClear /\ Small'

SpecCopy == Init /\ [][NextCopy]_vars

----------------------------------------------------------------------------
(* SpecSelf: a map extended with itself; nothing else runs during the call *)

NextSelf ==
    \/ \E k \in Keys, v \in Values : ~run.active /\ Add(k, v)
    \/ \E k \in Keys : ~run.active /\ DelItem(k)
    \/ \E k \in Keys, d \in Values : ~run.active /\ SetDefault(k, d)
    \/ ~run.active /\ Clear
    \/ ExtendSelfBegin
    \/ ExtendSelfStep

SpecSelf == Init /\ [][NextSelf]_vars

----------------------------------------------------------------------------
(* SpecRead: lookups, construction from the items and the unsupported calls,
   on a map that is being mutated *)

NextRead ==
    \/ \E k \in Keys, v \in Values : Add(k, v)
    \/ \E args \in ViewExtendArgs : Extend(args, <<>>)
    \/ Clear
    \/ \E k \in Keys, v \in Values : SetItem(k, v)
    \/ \E k \in Keys : DelItem(k)
    \/ \E k \in Keys, d \in Values : SetDefault(k, d)
    \/ \E k \in Keys : GetAllCall(k)
    \/ \E k \in Keys : GetAllDefault(k, Sentinel)
    \/ \E k \in Keys : GetOneCall(k)
    \/ \E k \in Keys, d \in Values : GetOneDefault(k, d)
    \/ \E k \in Keys : GetItemCall(k)
    \/ \E k \in Keys, d \in Values : GetCall(k, d)
    \/ \E k \in Keys : In(k)
    \/ \E k \in Keys, d \in Values : Pop(k, d)
    \/ PopItem
    \/ \E args \in ViewExtendArgs : Update(args, <<>>)
    \/ RoundTrip

SpecRead == Init /\ [][NextRead]_vars

----------------------------------------------------------------------------
(* Properties *)

\* the key as the class hands it to the storage and to the comparisons
Folded(c, k) == IF c THEN Upper(k) ELSE k

\* two keys are the same key of the map: equal, or equal up to case in the
\* case-insensitive class
SameKey(c, k1, k2) == Folded(c, k1) = Folded(c, k2)

HasDuplicateKey(its) ==
    \E i, j \in 1..Len(its) : i < j /\ its[i][1] = its[j][1]

\* positions of the first entry of each distinct key, ascending
FirstPositions(its) ==
    SelectSeq([i \in 1..Len(its) |-> i],
              LAMBDA i : \A j \in 1..(i - 1) : its[j][1] # its[i][1])

\* everything a consumer can observe of the keys, items and values views
Observed(vw, mapItems) ==
    [keys    |-> KeysViewIter(vw),
     items   |-> ItemsViewIter(vw, mapItems),
     values  |-> ValuesViewIter(vw, mapItems),
     len     |-> ViewLen(vw, mapItems),
     hasKey  |-> {k \in Keys : KeysViewContains(vw, k)},
     hasItem |-> {p \in Pairs : ItemsViewContains(vw, mapItems, p)},
     hasVal  |-> {v \in Values : ValuesViewContains(vw, mapItems, v)}]

\* C1: a view is a snapshot: no later call on the map changes what a view
\* that stays in hand yields, its length or its containment answers.
C1_ViewIsSnapshot ==
    [][(view.made /\ view' = view)
          => Observed(view', items') = Observed(view, items)]_vars

\* C2: every key in the entry storage of a case-insensitive map is folded.
C2_StoredKeysFolded ==
    ci => \A i \in 1..Len(items) : items[i][1] = Upper(items[i][1])

\* C3: a call that fails leaves the entry sequence as it was.
C3_FailureLeavesEntries ==
    [][last'.err # "none" => items' = items]_vars

\* C4 (as claimed): iterating the map yields each distinct key once, in
\* first-occurrence order.
C4_IterYieldsDistinctKeys ==
    last.op = "iter" =>
        last.out = MapSeq(FirstPositions(items), LAMBDA i : items[i][1])

\* C4 (amended): iterating the map yields the key of every entry, in entry
\* order, so a key with n entries is yielded n times.
C4_IterYieldsEveryKey ==
    last.op = "iter" =>
        /\ Len(last.out) = Len(items)
        /\ \A i \in 1..Len(items) : last.out[i] = items[i][1]

C4_Witness == last.op = "iter" /\ HasDuplicateKey(items)

\* C5 (as claimed): m == o holds iff o.get(k) equals v for the first entry
\* (k, v) of each distinct key of m.
C5_EqFirstValues ==
    [][last'.op = "eq" =>
       \A o \in Mappings : Eq(o) =>
          (last'.truth <=>
              \A n \in 1..Len(FirstPositions(items)) :
                  LET e == items[FirstPositions(items)[n]]
                  IN  OtherGet(o, e[1], None) = e[2])]_vars

\* C5 (amended): m == o holds iff o holds, for every entry (k, v) of m,
\* later duplicates included, the key k with a value equal to v.
C5_EqEveryEntry ==
    [][last'.op = "eq" =>
       \A o \in Mappings : Eq(o) =>
          (last'.truth <=>
              \A i \in 1..Len(items) :
                  /\ items[i][1] \in DOMAIN o
                  /\ o[items[i][1]] = items[i][2])]_vars

C5_Witness == last.op = "eq" /\ last.truth /\ HasDuplicateKey(items)

\* C6: setdefault(k, d) with k in m returns the first value of k and changes
\* nothing; with k not in m it appends one entry and returns d, after which
\* k is in m and getone(k) is d.
C6_SetDefault ==
    [][last'.op = "setdefault" =>
       \A k \in Keys, d \in Values : SetDefault(k, d) =>
          IF Contains(ci, items, k)
          THEN /\ last'.ret = GetOne(ci, items, k).ret
               /\ items' = items
          ELSE /\ Len(items') = Len(items) + 1
               /\ SubSeq(items', 1, Len(items)) = items
               /\ last'.ret = d
               /\ Contains(ci, items', k)
               /\ GetOne(ci, items', k) = [err |-> "none", ret |-> d]]_vars

\* C7: m[k] = v never fails; afterwards getall(k) is [v], the last entry is
\* (k, v) (k as the class stores it), and the entries of other keys are
\* kept with their values in their previous order.
C7_SetItem ==
    [][last'.op = "setitem" =>
       \A k \in Keys, v \in Values : SetItem(k, v) =>
          /\ last'.err = "none"
          /\ GetAll(ci, items', k) = [err |-> "none", ret |-> <<v>>]
          /\ items'[Len(items')] = <<Folded(ci, k), v>>
          /\ SelectSeq(SubSeq(items', 1, Len(items') - 1),
                       LAMBDA e : ~SameKey(ci, e[1], k))
               = SelectSeq(items, LAMBDA e : ~SameKey(ci, e[1], k))
          /\ SelectSeq(SubSeq(items', 1, Len(items') - 1),
                       LAMBDA e : e[1] # Folded(ci, k))
               = SelectSeq(items, LAMBDA e : e[1] # Folded(ci, k))]_vars

\* two or more entries of k were replaced by one, and another key was kept
C7_Witness ==
    /\ last.op = "setitem"
    /\ last.n > Len(items)
    /\ Len(items) >= 2

\* C8: add(k, v) never fails; len(m) grows by one, getall(k) is the previous
\* values of k followed by v, and the previous entries keep their places.
C8_Add ==
    [][last'.op = "add" =>
       \A k \in Keys, v \in Values : Add(k, v) =>
          /\ last'.err = "none"
          /\ Len(items') = Len(items) + 1
          /\ GetAll(ci, items', k).err = "none"
          /\ GetAll(ci, items', k).ret = Append(GetAll(ci, items, k).ret, v)
          /\ SubSeq(items', 1, Len(items)) = items]_vars

\* a value was added to a key that already had one
C8_Witness ==
    /\ last.op = "add"
    /\ Len(items) = last.n + 1
    /\ \E i \in 1..(Len(items) - 1) : items[i][1] = items[Len(items)][1]

\* C9: del m[k] with k in m removes every entry whose key is k (the same key
\* up to case in the case-insensitive class) and nothing else.
C9_DelItemRemovesAll ==
    [][last'.op = "delitem" =>
       \A k \in Keys : (DelItem(k) /\ Contains(ci, items, k)) =>
          /\ last'.err = "none"
          /\ ~Contains(ci, items', k)
          /\ items' = SelectSeq(items, LAMBDA e : ~SameKey(ci, e[1], k))]_vars

\* C9 where the storage holds folded keys only (every plain map, and the
\* case-insensitive maps that setdefault has not stored a raw key in):
\* the deletion removes exactly the entries of k.
C9_DelItemOnFoldedStorage ==
    [][last'.op = "delitem" =>
       \A k \in Keys :
          (/\ DelItem(k)
           /\ Contains(ci, items, k)
           /\ \A i \in 1..Len(items) : items[i][1] = Folded(ci, items[i][1])) =>
          /\ last'.err = "none"
          /\ ~Contains(ci, items', k)
          /\ items' = SelectSeq(items, LAMBDA e : ~SameKey(ci, e[1], k))]_vars

\* C10: del m[k] with k not in m fails with KeyError and leaves the entry
\* sequence as it was, in both classes.
C10_DelItemAbsent ==
    [][last'.op = "delitem" =>
       \A k \in Keys : (DelItem(k) /\ ~Contains(ci, items, k)) =>
          /\ last'.err = "KeyError"
          /\ items' = items]_vars

\* a failed deletion on a non-empty case-insensitive map
C10_Witness ==
    /\ last.op = "delitem"
    /\ last.err = "KeyError"
    /\ ci
    /\ Len(items) >= 1

\* C11: k in m holds iff getall(k, default=X) returns something other than
\* the sentinel X; equivalently getall(k) without a default raises KeyError
\* exactly when k is not in m.
C11_ContainsIffGetAll ==
    \A k \in Keys :
        /\ Contains(ci, items, k) <=> GetAllOr(ci, items, k, Sentinel).ret # Sentinel
        /\ ~Contains(ci, items, k) <=> GetAll(ci, items, k).err = "KeyError"

\* the sentinel came back from a map that holds entries of other keys
C11_Witness ==
    /\ last.op = "getall_default"
    /\ last.out = Sentinel
    /\ Len(items) >= 1

C14_RoundTrip ==
    (last.op = "roundtrip" /\ ~ci) =>
        /\ last.err = "none"
        /\ last.truth
        /\ MapInit(ci, <<ItemsViewIter(ViewInit(items, TRUE), items)>>, <<>>).items
             = items

C14_Witness == last.op = "roundtrip" /\ ~ci /\ HasDuplicateKey(items)

\* C16: pop, popitem and update fail with NotImplementedError and leave the
\* entry sequence as it was.
C16_Unsupported ==
    [][last'.op \in {"pop", "popitem", "update"} =>
          /\ last'.err = "NotImplementedError"
          /\ items' = items]_vars

C16_Witness == last.op = "pop" /\ last.err = "NotImplementedError" /\ Len(items) >= 1

\* C20: with k in m, getone(k), getone(k, d), m[k], get(k) and get(k, d) all
\* return getall(k)[0]; with k not in m, getone(k) and m[k] raise KeyError
\* and getone(k, d) and get(k, d) return d.
C20_SingleValueLookups ==
    \A k \in Keys, d \in Values :
        IF Contains(ci, items, k)
        THEN LET first == [err |-> "none", ret |-> GetAll(ci, items, k).ret[1]]
             IN  /\ GetAll(ci, items, k).err = "none"
                 /\ GetOne(ci, items, k) = first
                 /\ GetOneOr(ci, items, k, d) = first
                 /\ GetItem(ci, items, k) = first
                 /\ Get(ci, items, k, d) = first
        ELSE /\ GetOne(ci, items, k).err = "KeyError"
             /\ GetItem(ci, items, k).err = "KeyError"
             /\ GetOneOr(ci, items, k, d) = [err |-> "none", ret |-> d]
             /\ Get(ci, items, k, d) = [err |-> "none", ret |-> d]

\* get returned the first of two different values of a key
C20_Witness ==
    /\ last.op = "get"
    /\ \E i, j \in 1..Len(items) :
          /\ i < j
          /\ items[i][1] = items[j][1]
          /\ items[i][2] # items[j][2]
          /\ last.ret = items[i][2]
          /\ \A h \in 1..(i - 1) : items[h][1] # items[i][1]

\* C15: a view taken with getall=True reflects every entry in order and its
\* length is len(m); a view taken with getall=False reflects the first entry
\* of each distinct key, in first-occurrence order, and its length is the
\* number of distinct keys.
C15_ViewFilter ==
    last.op = "views" =>
        IF view.getall
        THEN /\ ItemsViewIter(view, items) = items
             /\ KeysViewIter(view) = MapSeq(items, LAMBDA e : e[1])
             /\ ValuesViewIter(view, items) = MapSeq(items, LAMBDA e : e[2])
             /\ ViewLen(view, items) = Len(items)
        ELSE LET firsts == MapSeq(FirstPositions(items), LAMBDA i : items[i])
             IN  /\ ItemsViewIter(view, items) = firsts
                 /\ KeysViewIter(view) = MapSeq(firsts, LAMBDA e : e[1])
                 /\ ValuesViewIter(view, items) = MapSeq(firsts, LAMBDA e : e[2])
                 /\ ViewLen(view, items)
                      = Cardinality({items[i][1] : i \in 1..Len(items)})

\* a getall=False view of a map with a repeated key
C15_Witness ==
    /\ last.op = "views"
    /\ ~view.getall
    /\ HasDuplicateKey(items)

\* C19: a view is consistent with itself at all times: its length is the
\* number of elements each of the keys, items and values views yields, and
\* the three correspond position by position.
C19_ViewConsistent ==
    view.made =>
        /\ Len(KeysViewIter(view)) = ViewLen(view, items)
        /\ Len(ItemsViewIter(view, items)) = ViewLen(view, items)
        /\ Len(ValuesViewIter(view, items)) = ViewLen(view, items)
        /\ \A i \in 1..ViewLen(view, items) :
              /\ i <= Len(KeysViewIter(view))
              /\ ItemsViewIter(view, items)[i]
                   = <<KeysViewIter(view)[i], ValuesViewIter(view, items)[i]>>

\* C18: in every state, an extend(pairs, **kw) that succeeds leaves the map as
\* calling add for each positional pair in order and then for each keyword
\* pair would: the entries before the call, followed by one entry per pair,
\* its key folded in the case-insensitive class.
C18_ExtendIsAdds ==
    \A args \in ExtendArgs, kwargs \in ExtendKwargs :
       LET r == MapExtend(ci, items, args, kwargs)
           pairs == (IF Len(args) = 1 THEN args[1] ELSE <<>>) \o kwargs
       IN  r.err = "none" =>
              /\ Len(args) <= 1
              /\ r.items = items \o MapSeq(pairs,
                               LAMBDA e : <<Folded(ci, e[1]), e[2]>>)

\* a case-insensitive map extended with a:1, B:None positionally and the
\* keyword A=1
C18_Witness ==
    /\ ci
    /\ last.op = "extend"
    /\ last.err = "none"
    /\ last.n = 0
    /\ items = << <<"A", 1>>, <<"B", None>>, <<"A", 1>> >>

\* C13: copy() returns a map of the same class holding the same entry
\* sequence as the original.
C13_CopySameEntries ==
    last.op = "copy" => CopyItems(other, items) = items

\* C13 on storage holding folded keys only: the copy holds the same entries
C13_CopyOnFoldedStorage ==
    (last.op = "copy" /\ (ci => \A i \in 1..Len(items) :
                                   items[i][1] = Upper(items[i][1])))
        => CopyItems(other, items) = items

\* C13, no shared storage: a mutation of the copy leaves the original's
\* entries unchanged, and a mutation of the original the copy's
C13_CopyIndependent ==
    [][other.made =>
         /\ (last'.op \in {"copy_add", "copy_setitem", "copy_delitem",
                           "copy_clear"}) => items' = items
         /\ (last'.op \in {"add", "setitem", "delitem", "setdefault", "clear"})
               => CopyItems(other', items') = CopyItems(other, items)]_vars

\* both maps hold entries and the copy has been written to since it was made
C13_Witness ==
    /\ other.made
    /\ last.op = "copy_add"
    /\ Len(items) >= 1
    /\ CopyItems(other, items) # items

\* C17: m.extend(m) adds one entry per pair m held when the call began:
\* at no point of the call has it added more than that.
C17_SelfExtendAddsInput ==
    run.added <= run.n0

\* C17 for an empty map: m.extend(m) returns having added nothing
C17_SelfExtendEmpty ==
    (last.op = "extend_self" /\ last.n = 0) => (~run.active /\ run.added = 0)

====
